---- MODULE Spec2Model ----
(***************************************************************************)
(* A2A JSON-RPC motivation agent: the /jsonrpc handler (main.py) and the   *)
(* suggestion generator (agent.py).                                        *)
(*                                                                         *)
(* Strings are sequences of tokens.  A token is one character (" ", "<",   *)
(* ">", "[", "]", ",", ".", "1", a newline "NL") or one atom that the code *)
(* never looks inside in a way the model does not state (a word such as    *)
(* "tired", a JSON string literal "Qa").  A JSON value is a record         *)
(* [k |-> kind, s |-> tokens]: s is the text of a string and <<>> for      *)
(* every other kind.                                                       *)
(***************************************************************************)
EXTENDS Integers, Sequences, FiniteSets, TLC

(***************************************************************************)
(* Bounds of the model                                                     *)
(***************************************************************************)
MaxParts == 2
MaxReply == 3

(***************************************************************************)
(* JSON values and Python truthiness                                       *)
(***************************************************************************)
JV(k, s) == [k |-> k, s |-> s]
Absent == JV("absent", <<>>)
JNull == JV("null", <<>>)
JTrue == JV("true", <<>>)
JFalse == JV("false", <<>>)
JNum == JV("num", <<>>)
JList == JV("list", <<>>)
JDict == JV("dict", <<>>)
JEmptyDict == JV("edict", <<>>)
JStr(s) == JV("str", s)

\* dict.get(key): a missing key reads as None
Get(v) == IF v = Absent THEN JNull ELSE v

\* dict.get(key, default)
GetDefault(v, d) == IF v = Absent THEN d ELSE v

\* bool(v) of a Python value
Truthy(v) ==
    \/ v.k \in {"true", "num", "list", "dict"}
    \/ v.k = "str" /\ v.s # <<>>

IsStr(v) == v.k = "str"

\* a or b
PyOr(a, b) == IF Truthy(a) THEN a ELSE b

(***************************************************************************)
(* str methods and the regular expressions of the envelope parser          *)
(***************************************************************************)
IsSpace(t) == t \in {" ", "NL"}

RECURSIVE LStrip(_)
LStrip(s) ==
    IF s # <<>> /\ IsSpace(Head(s)) THEN LStrip(Tail(s)) ELSE s

RECURSIVE RStrip(_)
RStrip(s) ==
    IF s # <<>> /\ IsSpace(s[Len(s)]) THEN RStrip(SubSeq(s, 1, Len(s) - 1)) ELSE s

\* str.strip()
Strip(s) == RStrip(LStrip(s))

\* the first index j >= i with s[j] = ">", or 0
RECURSIVE FindClose(_, _)
FindClose(s, i) ==
    IF i > Len(s) THEN 0
    ELSE IF s[i] = ">" THEN i
    ELSE FindClose(s, i + 1)

\* re.sub(r'<[^>]+>', ' ', s)
RECURSIVE StripTags(_)
StripTags(s) ==
    IF s = <<>> THEN <<>>
    ELSE IF Head(s) = "<" /\ Len(s) >= 3 /\ s[2] # ">" /\ FindClose(s, 3) # 0
         THEN <<" ">> \o StripTags(SubSeq(s, FindClose(s, 3) + 1, Len(s)))
         ELSE <<Head(s)>> \o StripTags(Tail(s))

\* re.sub(r'\s+', ' ', s)
RECURSIVE CollapseWs(_)
CollapseWs(s) ==
    IF s = <<>> THEN <<>>
    ELSE IF IsSpace(Head(s)) THEN <<" ">> \o CollapseWs(LStrip(s))
    ELSE <<Head(s)>> \o CollapseWs(Tail(s))

\* str.lower() of one token
LowerTok(t) ==
    CASE t = "Tired" -> "tired"
      [] t = "OK" -> "ok"
      [] t = "More" -> "more"
      [] OTHER -> t

\* str.lower()
Lower(s) == [i \in 1..Len(s) |-> LowerTok(s[i])]

\* the number of characters of one token
TokLen(t) ==
    CASE t \in {"ok", "OK", "hi"} -> 2
      [] t = "sad" -> 3
      [] t \in {"exam", "more", "More"} -> 4
      [] t \in {"tired", "Tired", "stuck"} -> 5
      [] t = "download" -> 8
      [] OTHER -> 1

\* len(s)
RECURSIVE StrLen(_)
StrLen(s) == IF s = <<>> THEN 0 ELSE TokLen(Head(s)) + StrLen(Tail(s))

(***************************************************************************)
(* agent.py: _rule_based_motivation                                        *)
(***************************************************************************)
ExamWords == {"exam", "test", "quiz", "midterm", "final"}
TiredWords == {"tired", "exhausted", "burnout"}
StuckWords == {"stuck", "blocked", "can't", "cannot", "unable"}
SadWords == {"sad", "down", "depressed", "unhappy"}

\* w in tok, for a word token: the keyword itself, or a word that holds it
TokHas(tok, w) == tok = w \/ (tok = "download" /\ w = "down")

\* any(w in text for w in words)
AnyIn(words, text) == \E i \in 1..Len(text) : \E w \in words : TokHas(text[i], w)

\* the three fixed messages of a category, by name
Template(cat) ==
    CASE cat = "exam" -> << <<"exam1">>, <<"exam2">>, <<"exam3">> >>
      [] cat = "tired" -> << <<"tired1">>, <<"tired2">>, <<"tired3">> >>
      [] cat = "stuck" -> << <<"stuck1">>, <<"stuck2">>, <<"stuck3">> >>
      [] cat = "sad" -> << <<"sad1">>, <<"sad2">>, <<"sad3">> >>
      [] OTHER -> << <<"generic1">>, <<"generic2">>, <<"generic3">> >>

\* mutant: the tiredness keywords are tested before the exam keywords
RuleBasedTiredFirst(user_input) ==
    LET text == Lower(user_input) IN
    IF AnyIn(TiredWords, text) THEN Template("tired")
    ELSE IF AnyIn(ExamWords, text) THEN Template("exam")
    ELSE IF AnyIn(StuckWords, text) THEN Template("stuck")
    ELSE IF AnyIn(SadWords, text) THEN Template("sad")
    ELSE Template("generic")

\* lines 12-40: the if/elif chain over the lowercased input
RuleBasedMotivation(user_input) ==
    LET text == Lower(user_input) IN
    IF AnyIn(ExamWords, text) THEN Template("exam")
    ELSE IF AnyIn(TiredWords, text) THEN Template("tired")
    ELSE IF AnyIn(StuckWords, text) THEN Template("stuck")
    ELSE IF AnyIn(SadWords, text) THEN Template("sad")
    ELSE Template("generic")

(***************************************************************************)
(* agent.py: _call_remote_model, the parse of the model's reply            *)
(*                                                                         *)
(* Reply tokens: "[" "]" "," "." "1" " " "NL", the bare word "a", and the  *)
(* JSON literals "Qa" (a JSON value whose str() is the word a) and "Qe"    *)
(* (the empty JSON string).                                                *)
(***************************************************************************)
Min(a, b) == IF a < b THEN a ELSE b

\* seq[:3]
Take3(seq) == SubSeq(seq, 1, Min(3, Len(seq)))

\* the first index >= i that holds no whitespace (Len(s) + 1 when none does)
RECURSIVE SkipWs(_, _)
SkipWs(s, i) ==
    IF i <= Len(s) /\ IsSpace(s[i]) THEN SkipWs(s, i + 1) ELSE i

\* the first index >= i that holds no digit
RECURSIVE SkipDigits(_, _)
SkipDigits(s, i) ==
    IF i <= Len(s) /\ s[i] = "1" THEN SkipDigits(s, i + 1) ELSE i

\* json's number scanner from a digit at i: digits, then "." and digits if any
NumberEnd(s, i) ==
    LET d == SkipDigits(s, i) IN
    IF d + 1 <= Len(s) /\ s[d] = "." /\ s[d + 1] = "1"
    THEN SkipDigits(s, d + 1)
    ELSE d

JsonFail == [ok |-> FALSE, next |-> 0, strs |-> <<>>]

\* json's decoder on the tokens of s from index i.  JsonValue gives in strs the
\* one string str(x).strip() of the value x read; JsonArray and JsonElems give
\* that string for each element of the array read.  str() of a nested list is
\* kept as the tokens of its text.
RECURSIVE JsonValue(_, _)
RECURSIVE JsonArray(_, _)
RECURSIVE JsonElems(_, _, _)
JsonValue(s, i) ==
    IF i > Len(s) THEN JsonFail
    ELSE IF s[i] = "Qa" THEN [ok |-> TRUE, next |-> i + 1, strs |-> << <<"a">> >>]
    ELSE IF s[i] = "Qe" THEN [ok |-> TRUE, next |-> i + 1, strs |-> << <<>> >>]
    ELSE IF s[i] = "1"
         THEN [ok |-> TRUE, next |-> NumberEnd(s, i),
               strs |-> << SubSeq(s, i, NumberEnd(s, i) - 1) >>]
    ELSE IF s[i] = "["
         THEN LET a == JsonArray(s, i) IN
              IF a.ok
              THEN [ok |-> TRUE, next |-> a.next,
                    strs |-> << SubSeq(s, i, a.next - 1) >>]
              ELSE JsonFail
    ELSE JsonFail

JsonArray(s, i) ==
    LET j == SkipWs(s, i + 1) IN
    IF j > Len(s) THEN JsonFail
    ELSE IF s[j] = "]" THEN [ok |-> TRUE, next |-> j + 1, strs |-> <<>>]
    ELSE JsonElems(s, j, <<>>)

JsonElems(s, j, acc) ==
    LET v == JsonValue(s, j) IN
    IF ~v.ok THEN JsonFail
    ELSE LET k == SkipWs(s, v.next) IN
         IF k > Len(s) THEN JsonFail
         ELSE IF s[k] = "]"
              THEN [ok |-> TRUE, next |-> k + 1, strs |-> acc \o v.strs]
         ELSE IF s[k] = ","
              THEN JsonElems(s, SkipWs(s, k + 1), acc \o v.strs)
         ELSE JsonFail

\* json.loads(text) of a text that starts with "[": the whole text is one array
JsonLoads(text) ==
    LET a == JsonArray(text, 1) IN
    IF a.ok /\ a.next = Len(text) + 1 THEN a ELSE JsonFail

\* re.search(r"\[.*\]", content, re.DOTALL): from the first "[" to the last "]"
FirstOpen(s) ==
    IF \E i \in 1..Len(s) : s[i] = "["
    THEN CHOOSE i \in 1..Len(s) : s[i] = "[" /\ \A j \in 1..(i - 1) : s[j] # "["
    ELSE 0

LastClose(s) ==
    IF \E i \in 1..Len(s) : s[i] = "]"
    THEN CHOOSE i \in 1..Len(s) : s[i] = "]" /\ \A j \in (i + 1)..Len(s) : s[j] # "]"
    ELSE 0

ArrayMatch(s) ==
    IF FirstOpen(s) # 0 /\ LastClose(s) > FirstOpen(s)
    THEN SubSeq(s, FirstOpen(s), LastClose(s))
    ELSE <<>>

\* str.splitlines()
RECURSIVE SplitLines(_, _)
SplitLines(s, cur) ==
    IF s = <<>> THEN (IF cur = <<>> THEN <<>> ELSE <<cur>>)
    ELSE IF Head(s) = "NL" THEN <<cur>> \o SplitLines(Tail(s), <<>>)
    ELSE SplitLines(Tail(s), Append(cur, Head(s)))

\* re.sub(r"^\s*\d+[\).:-]?\s*", "", ln).strip()
CleanLine(ln) ==
    LET l == LStrip(ln) IN
    IF l # <<>> /\ Head(l) = "1"
    THEN LET d == SkipDigits(l, 1)
             m == IF d <= Len(l) /\ l[d] = "." THEN d + 1 ELSE d
         IN  Strip(SubSeq(l, m, Len(l)))
    ELSE Strip(ln)

\* [clean(ln) for ln in content.splitlines() if ln.strip()]
RECURSIVE CleanLines(_)
CleanLines(lines) ==
    IF lines = <<>> THEN <<>>
    ELSE IF Strip(Head(lines)) = <<>> THEN CleanLines(Tail(lines))
    ELSE <<CleanLine(Head(lines))>> \o CleanLines(Tail(lines))

\* lines 114-116: the array decoded from the match m, if there is a match
ArrayOf(m) == IF m = <<>> THEN JsonFail ELSE JsonLoads(m)

\* lines 117-125 given the match m, the decoded array arr and the cleaned lines:
\* json.loads raising leaves the try block with no suggestions
Suggestions(m, arr, lines) ==
    IF m # <<>> /\ ~arr.ok THEN <<>>
    ELSE IF m # <<>> /\ arr.strs # <<>> THEN Take3(arr.strs)
    ELSE Take3(lines)

\* agent.py lines 107-130 on a reply text: the suggestions, <<>> when the parse
\* gives none or raises inside the try block
ParseContent(content) ==
    Suggestions(ArrayMatch(content), ArrayOf(ArrayMatch(content)),
                CleanLines(SplitLines(content, <<>>)))

\* json.dumps(data) of the reply body when it carries no content
DumpsNoChoices == <<"a">>
DumpsEmptyChoices == <<"a", "[", "]", "a">>
DumpsEmptyContent == <<"a", "[", "Qa", "]", "a">>

RemoteKinds ==
    {"neterr", "timeout", "status", "notjson", "nondict", "badchoice",
     "nochoices", "emptychoices", "nonstr", "content"}

Reply(kind, content) == [kind |-> kind, content |-> content]

\* the reply text that reaches the parse, for the kinds that reach it
ContentOf(o) ==
    CASE o.kind = "nochoices" -> DumpsNoChoices
      [] o.kind = "emptychoices" -> DumpsEmptyChoices
      [] o.kind = "content" /\ o.content = <<>> -> DumpsEmptyContent
      [] OTHER -> o.content

\* lines 89-100 and 127-130: the call raises on a failed request or a reply body
\* it cannot read, and when the parse gave no suggestions
RemoteResult(o, suggestions) ==
    IF o.kind \in {"neterr", "timeout", "status", "notjson", "badchoice"}
    THEN [ok |-> FALSE, suggestions |-> <<>>]
    ELSE IF suggestions = <<>> THEN [ok |-> FALSE, suggestions |-> <<>>]
    ELSE [ok |-> TRUE, suggestions |-> suggestions]

\* _call_remote_model with both variables configured, on the endpoint's answer o
CallRemoteModel(o) ==
    RemoteResult(o, IF o.kind \in {"nochoices", "emptychoices", "content"}
                    THEN ParseContent(ContentOf(o))
                    ELSE <<>>)

(***************************************************************************)
(* agent.py: generate_motivation                                           *)
(***************************************************************************)
\* mutant: a string passes when it is non-empty, blank or not
ValidInputNoStrip(v) == IsStr(v) /\ v.s # <<>>

\* isinstance(user_input, str) and user_input.strip()
ValidInput(v) == IsStr(v) /\ Strip(v.s) # <<>>

Configured(e) == e.key /\ e.base

GenRaise == [ok |-> FALSE, motivations |-> <<>>, source |-> "none", remote |-> 0]

\* lines 139-154 given the outcome r of the one remote call of line 145
GenerateResult(v, e, r) ==
    IF ~ValidInput(v) THEN GenRaise
    ELSE IF Configured(e) /\ r.ok
         THEN [ok |-> TRUE, motivations |-> r.suggestions,
               source |-> "remote_model", remote |-> 1]
    ELSE [ok |-> TRUE, motivations |-> RuleBasedMotivation(v.s),
          source |-> "local", remote |-> IF Configured(e) THEN 1 ELSE 0]

\* mutant: the fallback is reached after two requests
GenerateResultRetry(v, e, r) ==
    IF ~ValidInput(v) THEN GenRaise
    ELSE IF Configured(e) /\ r.ok
         THEN [ok |-> TRUE, motivations |-> r.suggestions,
               source |-> "remote_model", remote |-> 1]
    ELSE [ok |-> TRUE, motivations |-> RuleBasedMotivation(v.s),
          source |-> "local", remote |-> IF Configured(e) THEN 2 ELSE 0]

\* mutant: a failed remote call is tried a second time before the fallback
GenerateMotivationRetry(v, e, o) ==
    GenerateResultRetry(v, e, CallRemoteModel(o))

\* the result for input v, environment e and endpoint answer o; remote counts
\* the requests made to the endpoint
GenerateMotivation(v, e, o) ==
    GenerateResult(v, e, CallRemoteModel(o))

(***************************************************************************)
(* main.py: the payload of a POST /jsonrpc                                 *)
(*                                                                         *)
(* A request is a flat record of the fields the handler reads.  shape is   *)
(* "dict", "list" (valid JSON that is no object) or "notjson".  params,    *)
(* message, configuration and push (pushNotificationConfig) are JSON       *)
(* values; the fields inside one are read only when its kind is "dict".    *)
(* partsv is the value of message.parts: of kind "list" it holds the parts *)
(* of the field parts.                                                     *)
(***************************************************************************)
JEmptyList == JV("elist", <<>>)

\* one element of message.parts: pk is "dict" or "other"
Part(pk, kind, text) == [pk |-> pk, kind |-> kind, text |-> text]
TextPart(s) == Part("dict", JStr(<<"text">>), JStr(s))

V2 == JStr(<<"2.0">>)
MSend == JStr(<<"message/send">>)
MMotivate == JStr(<<"motivate">>)
DefaultInput == <<"Give", " ", "me", " ", "motivation">>

\* payload.get("params") or {}
ParamsOf(r) == IF Truthy(r.params) THEN r.params ELSE JEmptyDict

IsDict(v) == v.k \in {"dict", "edict"}

\* params.get(name, ...) of a field held in the request record
Field(container, v) == IF container.k = "dict" THEN v ELSE Absent

(***************************************************************************)
(* main.py lines 124-160: the envelope parser of message/send              *)
(***************************************************************************)
\* lines 140-147 on the text of one text part: the candidate, <<>> when dropped
Candidate(s) ==
    LET t1 == Strip(s)
        t2 == Strip(CollapseWs(StripTags(t1)))
    IN  IF t1 = <<>> THEN <<>>
        ELSE IF t2 # <<>> /\ Lower(t2) \notin {<<"ok">>, <<"more">>} THEN t2
        ELSE <<>>

IsTextPart(p) == p.pk = "dict" /\ Get(p.kind) = JStr(<<"text">>)

\* part.get("text", "").strip() raises on a text that is no string
PartRaises(p) == IsTextPart(p) /\ ~IsStr(GetDefault(p.text, JStr(<<>>)))

\* collected_texts of the parts
RECURSIVE Collected(_)
Collected(parts) ==
    IF parts = <<>> THEN <<>>
    ELSE LET p == Head(parts)
             c == IF IsTextPart(p) /\ ~PartRaises(p)
                  THEN Candidate(GetDefault(p.text, JStr(<<>>)).s)
                  ELSE <<>>
         IN  IF c = <<>> THEN Collected(Tail(parts))
             ELSE <<c>> \o Collected(Tail(parts))

\* max(texts, key=len): the first of the longest
RECURSIVE MaxByLen(_)
MaxByLen(texts) ==
    IF Len(texts) = 1 THEN texts[1]
    ELSE LET m == MaxByLen(Tail(texts)) IN
         IF StrLen(texts[1]) >= StrLen(m) THEN texts[1] ELSE m

\* the parts the loop of line 138 walks: a str or a dict gives only strings,
\* which line 139 skips
WalkedParts(r, message_obj) ==
    IF GetDefault(Field(message_obj, r.partsv), JEmptyList).k = "list"
    THEN r.parts
    ELSE <<>>

\* for part in parts raises on a value that is not iterable
PartsNotIterable(r, message_obj) ==
    GetDefault(Field(message_obj, r.partsv), JEmptyList).k
        \in {"null", "num", "true", "false"}

\* lines 125-126: params.get("message", {})
MessageObj(r) ==
    IF IsDict(ParamsOf(r))
    THEN GetDefault(Field(ParamsOf(r), r.message), JEmptyDict)
    ELSE JNull

\* lines 154-155: params.get("configuration", {})
ConfigObj(r) ==
    IF IsDict(ParamsOf(r))
    THEN GetDefault(Field(ParamsOf(r), r.configuration), JEmptyDict)
    ELSE JNull

\* lines 138-140: whether the walk over the parts raises
EnvelopeRaises(r, message_obj) ==
    /\ IsDict(message_obj)
    /\ \/ PartsNotIterable(r, message_obj)
       \/ \E i \in 1..Len(WalkedParts(r, message_obj)) :
              PartRaises(WalkedParts(r, message_obj)[i])

\* lines 137-147: collected_texts
EnvelopeTexts(r, message_obj) ==
    IF IsDict(message_obj) /\ ~EnvelopeRaises(r, message_obj)
    THEN Collected(WalkedParts(r, message_obj))
    ELSE <<>>

\* lines 125-160 given message_obj, config and the collected texts
Envelope(r, message_obj, config, texts) ==
    [raised |-> EnvelopeRaises(r, message_obj),
     user_input |-> IF texts = <<>> THEN DefaultInput ELSE MaxByLen(texts),
     message_id |-> IF IsDict(message_obj)
                    THEN Get(Field(message_obj, r.messageId))
                    ELSE JNull,
     blocking |-> IF IsDict(config)
                  THEN GetDefault(Field(config, r.blocking), JTrue)
                  ELSE JTrue,
     webhook_config |-> IF IsDict(config)
                        THEN Get(Field(config, r.push))
                        ELSE JNull]

ParseEnvelope(r) ==
    Envelope(r, MessageObj(r), ConfigObj(r), EnvelopeTexts(r, MessageObj(r)))

(***************************************************************************)
(* main.py: responses, outputs and the webhook notifier                    *)
(***************************************************************************)
NoResult == [outputs |-> <<>>, motivations |-> <<>>, source |-> "none"]

\* JSONResponse(status_code, content={"jsonrpc": "2.0", "result": result, "id": id})
ResultResponse(id, result) ==
    [status |-> 200, kind |-> "result", code |-> 0, id |-> id, result |-> result]

\* JSONResponse(status_code, content=jsonrpc_error(code, message, id))
JsonrpcError(status, code, id) ==
    [status |-> status, kind |-> "error", code |-> code, id |-> id,
     result |-> NoResult]

\* an exception that leaves handle_jsonrpc: the framework answers with a plain
\* 500 that is no JSON-RPC object
RawFailure ==
    [status |-> 500, kind |-> "raw", code |-> 0, id |-> JNull, result |-> NoResult]

NoResponse ==
    [status |-> 0, kind |-> "none", code |-> 0, id |-> JNull, result |-> NoResult]

\* lines 171-174
MkOutputs(motivations) ==
    [i \in 1..Len(motivations) |-> [kind |-> "text", text |-> motivations[i]]]

\* what the webhook target does with the POST
Hook(kind, code) == [kind |-> kind, code |-> code]
NoHook == Hook("none", 0)
HookOutcomes ==
    {Hook("status", c) : c \in {200, 201, 202, 203, 204, 299, 404, 500}}
        \cup {Hook("neterr", 0), Hook("timeout", 0)}

\* mutant: the payload loses the first output
WebhookPayloadTruncated(url, token, outs, mid) ==
    [url |-> url, token |-> token, outputs |-> Tail(outs), parts |-> Tail(outs),
     message_id |-> mid]

\* lines 64-83: what the notifier posts, and where
WebhookPayload(url, token, outs, mid) ==
    [url |-> url, token |-> token, outputs |-> outs, parts |-> outs,
     message_id |-> mid]

\* mutant: no try/except around the POST, so a network error or a timeout leaves
\* the notifier
SendWebhookUncaught(w) ==
    [raised |-> w.kind # "status",
     ret |-> w.kind = "status" /\ w.code \in {200, 201, 202, 204}]

\* mutant: every 2xx status counts as delivered
SendWebhookAny2xx(w) ==
    [raised |-> FALSE, ret |-> w.kind = "status" /\ w.code \in 200..299]

\* send_webhook_notification on the target's behaviour w: raised says whether an
\* exception leaves the function, ret is the value returned
SendWebhookNotification(w) ==
    [raised |-> FALSE,
     ret |-> w.kind = "status" /\ w.code \in {200, 201, 202, 204}]

\* mutant: the token is not required
WebhookDueNoToken(r, blocking_, webhook_config_, message_id_) ==
    /\ ~Truthy(blocking_)
    /\ Truthy(webhook_config_)
    /\ Truthy(Get(Field(webhook_config_, r.url)))
    /\ Truthy(message_id_)

\* lines 179-182: whether process_and_respond calls the notifier
WebhookDue(r, blocking_, webhook_config_, message_id_) ==
    /\ ~Truthy(blocking_)
    /\ Truthy(webhook_config_)
    /\ Truthy(Get(Field(webhook_config_, r.url)))
    /\ Truthy(Get(Field(webhook_config_, r.token)))
    /\ Truthy(message_id_)

(***************************************************************************)
(* The requests and endpoint answers the model draws from                  *)
(***************************************************************************)
BaseReq ==
    [shape |-> "dict", jsonrpc |-> V2, method |-> MSend, id |-> JNum,
     params |-> JDict, p0 |-> Absent, input |-> Absent,
     message |-> JDict, messageId |-> JStr(<<"m1">>),
     partsv |-> JList, parts |-> <<TextPart(<<"Tired">>)>>,
     configuration |-> JDict, blocking |-> Absent,
     push |-> Absent, url |-> Absent, token |-> Absent]

Hookable(r) ==
    [r EXCEPT !.blocking = JFalse, !.push = JDict,
              !.url = JStr(<<"http://hook">>), !.token = JStr(<<"secret">>)]

\* protocol level: version, method, id and params
ProtocolReqs ==
    {[BaseReq EXCEPT !.shape = sh] : sh \in {"list", "notjson"}}
    \cup {[Hookable(BaseReq) EXCEPT !.jsonrpc = j, !.method = m, !.id = i, !.params = p] :
            j \in {V2, JStr(<<"1.0">>), JNum, Absent},
            m \in {MSend, MMotivate, JStr(<<"unknown">>), JStr(<<>>), JNum, Absent},
            i \in {JNum, Absent},
            p \in {JDict, Absent, JStr(<<"x">>)}}

PartVals ==
    {Part("other", Absent, Absent),
     Part("dict", JStr(<<"file">>), JStr(<<"hi">>)),
     Part("dict", JStr(<<"text">>), Absent),
     Part("dict", JStr(<<"text">>), JNum),
     TextPart(<<" ">>),
     TextPart(<<"OK">>),
     TextPart(<<"Tired">>),
     TextPart(<<"<", "b", ">", "stuck">>),
     TextPart(<<"exam", " ", "Tired">>)}

RECURSIVE SeqsUpTo(_, _)
SeqsUpTo(S, n) ==
    IF n = 0 THEN {<<>>}
    ELSE LET shorter == SeqsUpTo(S, n - 1) IN
         shorter \cup {Append(s, x) : s \in {t \in shorter : Len(t) = n - 1}, x \in S}

\* the envelope of message/send: message, parts and their texts
EnvelopeReqs ==
    {[b EXCEPT !.parts = ps] :
        b \in {BaseReq, Hookable(BaseReq)}, ps \in SeqsUpTo(PartVals, MaxParts)}
    \cup {[b EXCEPT !.partsv = pv] :
            b \in {BaseReq, Hookable(BaseReq)},
            pv \in {Absent, JNull, JStr(<<"hi">>), JDict}}
    \cup {[b EXCEPT !.message = m] :
            b \in {BaseReq, Hookable(BaseReq)}, m \in {Absent, JStr(<<"hi">>), JEmptyDict}}

\* the delivery configuration of message/send
DeliveryReqs ==
    {[BaseReq EXCEPT !.configuration = c] : c \in {Absent, JStr(<<"x">>), JEmptyDict}}
    \cup {[BaseReq EXCEPT !.blocking = b, !.push = p, !.messageId = mid] :
            b \in {Absent, JTrue, JFalse, JNull},
            p \in {Absent, JNull, JEmptyDict, JStr(<<"x">>), JList},
            mid \in {JStr(<<"m1">>), Absent}}
    \cup {[BaseReq EXCEPT !.blocking = b, !.push = JDict, !.url = u, !.token = t,
                          !.messageId = mid, !.parts = ps] :
            b \in {Absent, JTrue, JFalse, JNull},
            u \in {JStr(<<"http://hook">>), JStr(<<>>), Absent},
            t \in {JStr(<<"secret">>), JStr(<<>>), Absent},
            mid \in {JStr(<<"m1">>), JStr(<<>>), Absent},
            ps \in {<<>>, <<TextPart(<<"Tired">>)>>,
                    <<Part("dict", JStr(<<"text">>), JNum)>>}}

MotivateInputs ==
    {Absent, JNull, JNum, JStr(<<>>), JStr(<<" ">>), JStr(<<"I'm", " ", "tired">>),
     JStr(<<"sad">>), JStr(<<"hi">>)}

\* the motivate method: params.input, params.message or the first positional
MotivateReqs ==
    {[BaseReq EXCEPT !.method = MMotivate, !.input = i, !.message = m, !.id = id] :
        i \in MotivateInputs, m \in MotivateInputs \cup {JDict},
        id \in {JNum, Absent}}
    \cup {[BaseReq EXCEPT !.method = MMotivate, !.params = JList, !.p0 = v] :
            v \in MotivateInputs \ {Absent}}
    \cup {[BaseReq EXCEPT !.method = MMotivate, !.params = p, !.input = JStr(<<"hi">>)] :
            p \in {Absent, JEmptyList, JNum}}

Requests == ProtocolReqs \cup EnvelopeReqs \cup DeliveryReqs \cup MotivateReqs

ReplyTokens == {"[", "]", ",", ".", "1", " ", "NL", "a", "Qa", "Qe"}

NoAnswer == Reply("none", <<>>)

\* every answer of the endpoint with a reply text of at most MaxReply tokens
AllAnswers ==
    {Reply(k, <<>>) : k \in RemoteKinds \ {"content"}}
        \cup {Reply("content", c) : c \in SeqsUpTo(ReplyTokens, MaxReply)}

\* the answers the handler is run against
SampleAnswers ==
    {Reply("timeout", <<>>), Reply("status", <<>>), Reply("emptychoices", <<>>),
     Reply("content", <<"[", "Qa", ",", "Qa", ",", "Qa", ",", "Qa", "]">>),
     Reply("content", <<"[", "Qe", "]">>),
     Reply("content", <<"[", "a", "]">>),
     Reply("content", <<"1", ".", "a", "NL", "1", ".">>),
     Reply("content", <<" ">>)}

(***************************************************************************)
(* State                                                                   *)
(***************************************************************************)
VARIABLES
    env,            \* OPENAI_API_KEY and OPENAI_BASE_URL: whether each is set
    req,            \* the payload of the call
    pc,             \* where the call is
    user_input,     \* the input handed to generate_motivation, a JSON value
    message_id,     \* handler locals of message/send
    blocking,
    webhook_config,
    answer,         \* what the remote endpoint answered, NoAnswer when not asked
    remoteCalls,    \* requests made to the remote endpoint
    gen,            \* what generate_motivation gave
    outputs,        \* what process_and_respond returns
    hooks,          \* the calls of send_webhook_notification, in order
    hookOutcome,    \* what the webhook target did
    hookRet,        \* what send_webhook_notification returned
    response        \* the HTTP response of the call

vars ==
    <<env, req, pc, user_input, message_id, blocking, webhook_config, answer,
      remoteCalls, gen, outputs, hooks, hookOutcome, hookRet, response>>

handlerLocals == <<user_input, message_id, blocking, webhook_config>>
genVars == <<answer, remoteCalls, gen, outputs>>
hookVars == <<hooks, hookOutcome, hookRet>>

NoGen == [ok |-> FALSE, motivations |-> <<>>, source |-> "unset", remote |-> 0]

Envs == [key : BOOLEAN, base : BOOLEAN]

Init ==
    /\ env \in Envs
    /\ req = BaseReq
    /\ pc = "idle"
    /\ user_input = JNull
    /\ message_id = JNull
    /\ blocking = JTrue
    /\ webhook_config = JNull
    /\ answer = NoAnswer
    /\ remoteCalls = 0
    /\ gen = NoGen
    /\ outputs = <<>>
    /\ hooks = <<>>
    /\ hookOutcome = NoHook
    /\ hookRet = FALSE
    /\ response = NoResponse

\* the answers a call can get: the endpoint is asked only for a valid input and
\* when both variables are set
AnswersFor(e, v, answers) ==
    IF Configured(e) /\ ValidInput(v) THEN answers ELSE {NoAnswer}

(***************************************************************************)
(* main.py: handle_jsonrpc                                                 *)
(***************************************************************************)
\* mutant: the version is checked only when the field is present
VersionOkIfPresent(r) == r.jsonrpc = Absent \/ Get(r.jsonrpc) = V2

\* line 116: jsonrpc == "2.0"
VersionOk(r) == Get(r.jsonrpc) = V2

\* mutant: a method that is not motivate is served as message/send
MethodRouteDefaultSend(method) ==
    IF ~Truthy(method) THEN "missing"
    ELSE IF method = MMotivate THEN "motivate"
    ELSE "send"

\* lines 119, 122, 221 and 239: where the method takes the call
MethodRoute(method) ==
    IF ~Truthy(method) THEN "missing"
    ELSE IF method = MSend THEN "send"
    ELSE IF method = MMotivate THEN "motivate"
    ELSE "unknown"

\* a POST /jsonrpc arrives
Receive ==
    /\ pc = "idle"
    /\ \E r \in Requests : req' = r
    /\ pc' = "validate"
    /\ UNCHANGED <<env, handlerLocals, genVars, hookVars, response>>

\* lines 100-123, 221 and 239: JSON-RPC validation and the choice of the method
Validate ==
    /\ pc = "validate"
    /\ LET id_val == Get(req.id)
           method == Get(req.method)
       IN  IF req.shape = "notjson"
           THEN /\ response' = JsonrpcError(400, -32700, JNull)
                /\ pc' = "done"
           ELSE IF req.shape # "dict"
           THEN /\ response' = JsonrpcError(400, -32600, JNull)
                /\ pc' = "done"
           ELSE IF ~VersionOk(req)
           THEN /\ response' = JsonrpcError(400, -32600, id_val)
                /\ pc' = "done"
           ELSE IF MethodRoute(method) = "missing"
           THEN /\ response' = JsonrpcError(400, -32601, id_val)
                /\ pc' = "done"
           ELSE IF MethodRoute(method) = "send"
           THEN /\ pc' = "parse"
                /\ UNCHANGED response
           ELSE IF MethodRoute(method) = "motivate"
           THEN /\ pc' = "motivate"
                /\ UNCHANGED response
           ELSE /\ response' = JsonrpcError(404, -32601, id_val)
                /\ pc' = "done"
    /\ UNCHANGED <<env, req, handlerLocals, genVars, hookVars>>

\* lines 124-162: the envelope parser; an exception here leaves the handler
ParseTo(p) ==
    IF p.raised
    THEN /\ response' = RawFailure
         /\ pc' = "done"
         /\ UNCHANGED handlerLocals
    ELSE /\ user_input' = JStr(p.user_input)
         /\ message_id' = p.message_id
         /\ blocking' = p.blocking
         /\ webhook_config' = p.webhook_config
         /\ pc' = "dispatch"
         /\ UNCHANGED response

Parse ==
    /\ pc = "parse"
    /\ ParseTo(ParseEnvelope(req))
    /\ UNCHANGED <<env, req, genVars, hookVars>>

\* line 191: the test that picks the branch; webhook_config.get raises on a
\* truthy value that is no dict, outside every try
Dispatch ==
    /\ pc = "dispatch"
    /\ IF ~Truthy(blocking) /\ Truthy(webhook_config) /\ ~IsDict(webhook_config)
       THEN /\ response' = RawFailure
            /\ pc' = "done"
       ELSE /\ pc' = "generate"
            /\ UNCHANGED response
    /\ UNCHANGED <<env, req, handlerLocals, genVars, hookVars>>

\* lines 166-176 and 186-188 with the endpoint answering o: generation inside
\* process_and_respond, whose except returns [] when it raises
GenerateTo(g, o) ==
    /\ gen' = g
    /\ answer' = o
    /\ remoteCalls' = remoteCalls + g.remote
    /\ outputs' = IF g.ok THEN MkOutputs(g.motivations) ELSE <<>>
    /\ pc' = IF g.ok /\ WebhookDue(req, blocking, webhook_config, message_id)
             THEN "webhook"
             ELSE "respond"

Generate ==
    /\ pc = "generate"
    /\ \E o \in AnswersFor(env, user_input, SampleAnswers) :
        GenerateTo(GenerateMotivation(user_input, env, o), o)
    /\ UNCHANGED <<env, req, handlerLocals, hookVars, response>>

\* mutant: the POST is handed to a background task and not awaited
WebhookDetached(w, sent) ==
    /\ hooks' = Append(hooks, WebhookPayload(req.url, req.token, outputs,
                                             message_id))
    /\ hookOutcome' = NoHook
    /\ hookRet' = FALSE
    /\ outputs' = outputs

\* line 183 and 186-188: the notifier is awaited inside the try of
\* process_and_respond, which returns [] if it raises
WebhookTo(w, sent) ==
    /\ hooks' = Append(hooks, WebhookPayload(req.url, req.token, outputs,
                                             message_id))
    /\ hookOutcome' = w
    /\ hookRet' = (~sent.raised /\ sent.ret)
    /\ outputs' = IF sent.raised THEN <<>> ELSE outputs

Webhook ==
    /\ pc = "webhook"
    /\ \E w \in HookOutcomes : WebhookTo(w, SendWebhookNotification(w))
    /\ pc' = "respond"
    /\ UNCHANGED <<env, req, handlerLocals, answer, remoteCalls, gen, response>>

\* lines 194-204 and 211-215: both branches answer 200 with the outputs
Respond ==
    /\ pc = "respond"
    /\ response' = ResultResponse(Get(req.id),
                                  [outputs |-> outputs, motivations |-> <<>>,
                                   source |-> "none"])
    /\ pc' = "done"
    /\ UNCHANGED <<env, req, handlerLocals, genVars, hookVars>>

\* mutant: params.message is not read
MotivateInputOnly(r) ==
    LET params == ParamsOf(r) IN
    IF IsDict(params) THEN Get(Field(params, r.input))
    ELSE IF params.k = "list" THEN r.p0
    ELSE JNull

\* lines 222-226: the input of the motivate method
MotivateInput(r) ==
    LET params == ParamsOf(r) IN
    IF IsDict(params)
    THEN PyOr(Get(Field(params, r.input)), Get(Field(params, r.message)))
    ELSE IF params.k = "list" THEN r.p0
    ELSE JNull

\* lines 221-237: the motivate method
MotivateTo(input, g, o) ==
    /\ user_input' = input
    /\ gen' = g
    /\ answer' = o
    /\ remoteCalls' = remoteCalls + g.remote
    /\ UNCHANGED outputs
    /\ response' =
         IF g.ok
         THEN ResultResponse(Get(req.id),
                             [outputs |-> <<>>, motivations |-> g.motivations,
                              source |-> g.source])
         ELSE JsonrpcError(500, -32000, Get(req.id))

MotivateWith(input) ==
    IF ~Truthy(input)
    THEN /\ response' = JsonrpcError(400, -32602, Get(req.id))
         /\ UNCHANGED <<user_input, genVars>>
    ELSE \E o \in AnswersFor(env, input, SampleAnswers) :
            MotivateTo(input, GenerateMotivation(input, env, o), o)

Motivate ==
    /\ pc = "motivate"
    /\ MotivateWith(MotivateInput(req))
    /\ pc' = "done"
    /\ UNCHANGED <<env, req, message_id, blocking, webhook_config, hookVars>>

Next ==
    \/ Receive
    \/ Validate
    \/ Parse
    \/ Dispatch
    \/ Generate
    \/ Webhook
    \/ Respond
    \/ Motivate

Spec == Init /\ [][Next]_vars

(***************************************************************************)
(* The handler when generate_motivation raises on a valid input: lines     *)
(* 156-158 re-raise whatever the local path raises (an internal error such *)
(* as a MemoryError), and line 186 of main.py catches it.                  *)
(***************************************************************************)
GenerateFault ==
    /\ pc = "generate"
    /\ gen' = GenRaise
    /\ outputs' = <<>>
    /\ pc' = "respond"
    /\ UNCHANGED <<env, req, handlerLocals, answer, remoteCalls, hookVars, response>>

NextFault == Next \/ GenerateFault

SpecFault == Init /\ [][NextFault]_vars

(***************************************************************************)
(* generate_motivation alone, on every input and every answer of the       *)
(* endpoint within the bounds                                              *)
(***************************************************************************)
GenInputs ==
    {JNull, JNum, JStr(<<>>), JStr(<<" ">>), JStr(<<"I'm", " ", "tired">>),
     JStr(<<"exam", " ", "Tired">>), JStr(<<"hi">>),
     JStr(<<"Tired", " ", "stuck">>), JStr(<<"sad", " ", "stuck">>),
     JStr(<<"download">>), JStr(<<"sad", " ", "exam">>)}

InitGen ==
    /\ env \in Envs
    /\ req = BaseReq
    /\ pc = "gen"
    /\ user_input \in GenInputs
    /\ message_id = JNull
    /\ blocking = JTrue
    /\ webhook_config = JNull
    /\ answer = NoAnswer
    /\ remoteCalls = 0
    /\ gen = NoGen
    /\ outputs = <<>>
    /\ hooks = <<>>
    /\ hookOutcome = NoHook
    /\ hookRet = FALSE
    /\ response = NoResponse

GenCallTo(g, o) ==
    /\ gen' = g
    /\ answer' = o
    /\ remoteCalls' = remoteCalls + g.remote

GenCall ==
    /\ pc = "gen"
    /\ \E o \in AnswersFor(env, user_input, AllAnswers) :
        GenCallTo(GenerateMotivation(user_input, env, o), o)
    /\ pc' = "gen_done"
    /\ UNCHANGED <<env, req, handlerLocals, outputs, hookVars, response>>

SpecGen == InitGen /\ [][GenCall]_vars

(***************************************************************************)
(* Properties.  The predicates below read the request as the caller wrote  *)
(* it, not the handler's locals.                                           *)
(***************************************************************************)
\* a JSON-RPC 2.0 call of the method m
CallOf(r, m) == r.shape = "dict" /\ r.jsonrpc = V2 /\ r.method = m

\* configuration.blocking is given and is false (false or null)
BlockingFalse(r) ==
    r.params = JDict /\ r.configuration = JDict /\ r.blocking \in {JFalse, JNull}

\* pushNotificationConfig supplies url and token, and the message a messageId
HookTarget(r) ==
    /\ r.params = JDict /\ r.configuration = JDict /\ r.push = JDict
    /\ r.url.k = "str" /\ r.url.s # <<>>
    /\ r.token.k = "str" /\ r.token.s # <<>>
    /\ r.message = JDict
    /\ r.messageId.k = "str" /\ r.messageId.s # <<>>

\* message.parts is absent or a list, and every text of a text part is a string
PartsTyped(r) ==
    \/ r.params # JDict
    \/ r.message # JDict
    \/ r.partsv = Absent
    \/ /\ r.partsv = JList
       /\ \A i \in 1..Len(r.parts) :
            \/ r.parts[i].pk # "dict"
            \/ r.parts[i].kind # JStr(<<"text">>)
            \/ r.parts[i].text.k \in {"absent", "str"}

Texts(outs) == [i \in 1..Len(outs) |-> outs[i].text]

C2_AlwaysJsonRpcResponse ==
    (pc = "done" /\ req.shape = "dict" /\ req.jsonrpc = V2)
    => response.kind \in {"result", "error"}

\* C3: when generation raises in message/send, the call ends with status 500,
\* code -32000 and the id of the request; never with 200 and empty outputs.
C3_GenerateFailureIsServerError ==
    (pc = "done" /\ CallOf(req, MSend) /\ gen = GenRaise)
    => /\ response.status = 500
       /\ response.kind = "error"
       /\ response.code = -32000
       /\ response.id = Get(req.id)

\* C4: a request whose jsonrpc is not "2.0" gets status 400 and code -32600,
\* whatever its method and params; nothing is generated and no webhook is sent.
C4_BadVersionIsInvalidRequest ==
    (req.shape = "dict" /\ req.jsonrpc # V2 /\ pc # "idle")
    => /\ pc \in {"validate", "done"}
       /\ gen = NoGen /\ remoteCalls = 0 /\ hooks = <<>>
       /\ pc = "done" =>
            /\ response.status = 400
            /\ response.kind = "error"
            /\ response.code = -32600
            /\ response.id = Get(req.id)

C4_Witness ==
    /\ pc = "done" /\ req.shape = "dict" /\ req.jsonrpc = JNum /\ req.method = MSend
    /\ HookTarget(req)
    /\ response.code = -32600

\* C5: once the notifier has been called, the response is 200 with the outputs of
\* the generation, whatever the webhook target did; a failed delivery shows only
\* as the notifier's return value False.
C5_WebhookFailureNotSurfaced ==
    (pc = "done" /\ Len(hooks) >= 1)
    => /\ response.status = 200
       /\ response.kind = "result"
       /\ response.id = Get(req.id)
       /\ Texts(response.result.outputs) = gen.motivations
       /\ response.result.outputs # <<>>
       /\ (hookOutcome.kind # "status" \/ hookOutcome.code \notin 200..299)
            => hookRet = FALSE

C5_Witness ==
    /\ pc = "done" /\ Len(hooks) = 1
    /\ hookOutcome.kind = "timeout"
    /\ hookRet = FALSE
    /\ response.status = 200
    /\ response.result.outputs # <<>>

RemoteFails(o) ==
    \/ o.kind \in {"neterr", "timeout", "status", "notjson", "nondict", "badchoice",
                   "nonstr"}
    \/ o.kind = "content" /\ o.content \in {<<" ">>, <<"NL">>, <<"[", "a", "]">>, <<"[", "1", ".", "]">>}
    \/ ~CallRemoteModel(o).ok

\* C7: with key and base URL set, generate_motivation asks the endpoint exactly
\* once, and when that fails it returns the local template of the input with
\* source "local" and raises nothing; with either unset it never asks.
C7_RemoteFailureFallsBackOnce ==
    (pc = "gen_done" /\ ValidInput(user_input))
    => /\ Configured(env) => remoteCalls = 1
       /\ ~Configured(env) => (remoteCalls = 0 /\ answer = NoAnswer)
       /\ (~Configured(env) \/ RemoteFails(answer)) =>
            /\ gen.ok
            /\ gen.source = "local"
            /\ gen.motivations = RuleBasedMotivation(user_input.s)
            /\ Len(gen.motivations) = 3

C7_Witness ==
    /\ pc = "gen_done" /\ Configured(env)
    /\ answer = Reply("content", <<"[", "a", "]">>)
    /\ user_input = JStr(<<"I'm", " ", "tired">>)
    /\ remoteCalls = 1
    /\ gen.source = "local"
    /\ gen.motivations = << <<"tired1">>, <<"tired2">>, <<"tired3">> >>

\* C8: for every non-empty input and every reply of the remote model, a
\* successful generate_motivation returns 1 to 3 motivations, each a non-empty
\* string.
C8_OneToThreeNonEmpty ==
    (pc = "gen_done" /\ gen.ok)
    => /\ Len(gen.motivations) \in 1..3
       /\ \A i \in 1..Len(gen.motivations) : gen.motivations[i] # <<>>

\* C9: send_webhook_notification returns True exactly when the target answers
\* with a status in 200..299.
C9_SuccessIsAny2xx ==
    (pc \in {"respond", "done"} /\ Len(hooks) = 1)
    => (hookRet <=> (hookOutcome.kind = "status" /\ hookOutcome.code \in 200..299))

\* C9 as amended: send_webhook_notification returns True exactly when the
\* target answers 200, 201, 202 or 204, and False for every other status and
\* for a network error or a timeout.
C9_SuccessIsListedStatus ==
    (pc \in {"respond", "done"} /\ Len(hooks) = 1)
    => (hookRet <=> (hookOutcome.kind = "status"
                        /\ hookOutcome.code \in {200, 201, 202, 204}))

C9_Witness ==
    /\ pc = "done" /\ Len(hooks) = 1
    /\ hookOutcome = Hook("status", 203)
    /\ hookRet = FALSE

\* the input of a motivate call, as the caller gave it
GivenInput(r) ==
    IF r.params = JDict
    THEN (IF r.input.k = "str" /\ r.input.s # <<>> THEN r.input
          ELSE IF r.input \in {Absent, JNull, JStr(<<>>)} THEN r.message
          ELSE JNull)
    ELSE IF r.params = JList THEN r.p0
    ELSE JNull

\* the category of the inputs the motivate calls carry
CategoryOf(s) ==
    CASE s = <<"I'm", " ", "tired">> -> "tired"
      [] s = <<"sad">> -> "sad"
      [] OTHER -> "generic"

\* C10: motivate with a non-blank string input, given as params.input,
\* params.message or the first positional param, is answered 200 with a
\* non-empty motivations list and a source tag; with no remote endpoint
\* configured the motivations are the local template of the input's category
\* and the source is "local".
C10_MotivateResult ==
    (pc = "done" /\ CallOf(req, MMotivate) /\ ValidInput(GivenInput(req)))
    => /\ response.status = 200
       /\ response.kind = "result"
       /\ response.id = Get(req.id)
       /\ response.result.motivations # <<>>
       /\ response.result.source \in {"local", "remote_model"}
       /\ ~Configured(env) =>
            /\ response.result.source = "local"
            /\ response.result.motivations = Template(CategoryOf(GivenInput(req).s))

C10_Witness ==
    /\ pc = "done" /\ CallOf(req, MMotivate) /\ ~Configured(env)
    /\ req.input = Absent
    /\ req.message = JStr(<<"I'm", " ", "tired">>)
    /\ response.status = 200
    /\ response.result.source = "local"
    /\ response.result.motivations = << <<"tired1">>, <<"tired2">>, <<"tired3">> >>

\* the categories in the order the claim fixes, and their keywords
CategoryOrder == <<"exam", "tired", "stuck", "sad">>

KeywordsOf(cat) ==
    CASE cat = "exam" -> ExamWords
      [] cat = "tired" -> TiredWords
      [] cat = "stuck" -> StuckWords
      [] cat = "sad" -> SadWords

\* the category has a keyword in the text
Matches(cat, text) ==
    \E i \in 1..Len(text) : \E w \in KeywordsOf(cat) : TokHas(text[i], w)

\* the earliest category of the order with a keyword in the text, else generic
EarliestCategory(text) ==
    IF \E k \in 1..Len(CategoryOrder) : Matches(CategoryOrder[k], text)
    THEN CategoryOrder[CHOOSE k \in 1..Len(CategoryOrder) :
                          /\ Matches(CategoryOrder[k], text)
                          /\ \A j \in 1..(k - 1) : ~Matches(CategoryOrder[j], text)]
    ELSE "generic"

\* C11: whenever the local generator answers, the motivations are exactly the
\* three messages of the template of the earliest category, in the order
\* exam, tired, stuck, sad, that has a keyword in the lowercased input, and
\* the generic template when no category has one.
C11_FirstMatchingCategoryWins ==
    (pc = "gen_done" /\ gen.ok /\ gen.source = "local")
    => /\ gen.motivations = Template(EarliestCategory(Lower(user_input.s)))
       /\ Len(gen.motivations) = 3

C11_Witness ==
    /\ pc = "gen_done" /\ gen.ok /\ gen.source = "local"
    /\ user_input = JStr(<<"exam", " ", "Tired">>)
    /\ gen.motivations = << <<"exam1">>, <<"exam2">>, <<"exam3">> >>

\* the parts of a message/send call, as the caller wrote them
SendParts(r) ==
    IF r.params = JDict /\ r.message = JDict /\ r.partsv = JList
    THEN r.parts
    ELSE <<>>

\* a part's text trimmed, with tags stripped and whitespace collapsed
Cleaned(p) ==
    IF p.text.k = "str" THEN Strip(CollapseWs(StripTags(Strip(p.text.s)))) ELSE <<>>

\* a qualifying part: kind "text", a text that is non-empty once cleaned and
\* is not a bare filler token
Qualifies(p) ==
    /\ p.pk = "dict"
    /\ p.kind = JStr(<<"text">>)
    /\ Cleaned(p) # <<>>
    /\ Lower(Cleaned(p)) \notin {<<"ok">>, <<"more">>}

NoneQualifies(r) == \A i \in 1..Len(SendParts(r)) : ~Qualifies(SendParts(r)[i])

\* t is the text of the first of the longest qualifying parts, or the default
SelectedFrom(r, t) ==
    IF NoneQualifies(r) THEN t = DefaultInput
    ELSE \E i \in 1..Len(SendParts(r)) :
            /\ Qualifies(SendParts(r)[i])
            /\ t = Cleaned(SendParts(r)[i])
            /\ \A j \in 1..Len(SendParts(r)) :
                  Qualifies(SendParts(r)[j])
                  => /\ StrLen(Cleaned(SendParts(r)[j])) <= StrLen(t)
                     /\ j < i => StrLen(Cleaned(SendParts(r)[j])) < StrLen(t)

\* C12: a finished message/send call that gave a result generated from the
\* longest qualifying text part, the first of them on a tie, or from the
\* default "Give me motivation" when no part qualifies; and when no part
\* qualifies the call is still answered with a non-empty result.
C12_LongestQualifyingOrDefault ==
    (pc = "done" /\ CallOf(req, MSend))
    => /\ response.kind = "result" => SelectedFrom(req, user_input.s)
       /\ NoneQualifies(req)
            => /\ response.kind = "result"
               /\ response.result.outputs # <<>>

\* a JSON-RPC 2.0 call whose method is neither message/send nor motivate
UnsupportedCall(r) ==
    r.shape = "dict" /\ r.jsonrpc = V2 /\ r.method \notin {MSend, MMotivate}

\* C13: a 2.0 call whose method is missing or is not a supported name never
\* reaches generation or the webhook, and ends with error -32601 and the
\* request id: status 400 when there is no method, 404 when the method is an
\* unknown name.
C13_UnsupportedMethodNotFound ==
    (pc # "idle" /\ UnsupportedCall(req))
    => /\ gen = NoGen /\ remoteCalls = 0 /\ answer = NoAnswer
       /\ hooks = <<>> /\ outputs = <<>>
       /\ pc \in {"validate", "done"}
       /\ pc = "done"
            => /\ response.kind = "error"
               /\ response.code = -32601
               /\ response.id = Get(req.id)
               /\ response.status \in {400, 404}
               /\ req.method = Absent => response.status = 400
               /\ Truthy(req.method) => response.status = 404

C13_Witness ==
    /\ pc = "done"
    /\ UnsupportedCall(req)
    /\ req.method = JStr(<<"unknown">>)
    /\ req.id = JNum
    /\ response = JsonrpcError(404, -32601, JNum)
    /\ gen = NoGen /\ hooks = <<>>

\* an input that is no string, or is empty or all whitespace
BlankOrNonString(v) ==
    v.k # "str" \/ \A i \in 1..Len(v.s) : IsSpace(v.s[i])

NothingGiven == {Absent, JNull, JStr(<<>>)}

\* what a motivate call offers as its input: params.input, else
\* params.message, or the first positional param; JNull when it offers nothing
Offered(r) ==
    IF r.params = JDict
    THEN (IF r.input \notin NothingGiven THEN r.input
          ELSE IF r.message \notin NothingGiven THEN r.message
          ELSE JNull)
    ELSE IF r.params = JList /\ r.p0 \notin NothingGiven THEN r.p0
    ELSE JNull

\* C14: an input that is no string, empty or all whitespace never gets
\* motivations.  generate_motivation raises on it with no request to the
\* remote endpoint and no local template chosen; the motivate method answers
\* it with an error and no result: 400 and -32602 when no input is given,
\* and the generator's invalid-input error otherwise.
C14_InvalidInputRejectedBeforeGeneration ==
    /\ (pc = "gen_done" /\ BlankOrNonString(user_input))
       => /\ ~gen.ok
          /\ gen.motivations = <<>>
          /\ gen.source \notin {"local", "remote_model"}
          /\ remoteCalls = 0
    /\ (pc = "done" /\ CallOf(req, MMotivate) /\ BlankOrNonString(Offered(req)))
       => /\ response.kind = "error"
          /\ response.result = NoResult
          /\ response.id = Get(req.id)
          /\ remoteCalls = 0
          /\ gen.motivations = <<>>
          /\ gen.source \notin {"local", "remote_model"}
          /\ IF Offered(req) = JNull
             THEN response.status = 400 /\ response.code = -32602 /\ gen = NoGen
             ELSE response.status = 500 /\ response.code = -32000 /\ gen = GenRaise

C14_Witness ==
    /\ pc = "done" /\ CallOf(req, MMotivate) /\ Configured(env)
    /\ req.params = JDict
    /\ req.input = JStr(<<" ">>)
    /\ response.kind = "error"
    /\ gen = GenRaise
    /\ remoteCalls = 0

\* no JSON array comes out of the reply: no bracketed substring, one that is
\* not valid JSON, or an empty array
ArrayFails(content) ==
    \/ ArrayMatch(content) = <<>>
    \/ ~JsonLoads(ArrayMatch(content)).ok
    \/ JsonLoads(ArrayMatch(content)).strs = <<>>

\* the non-empty lines of the reply with their enumeration markers stripped
ReplyLines(content) == CleanLines(SplitLines(content, <<>>))

\* C15: when no JSON array comes out of the model's reply, the suggestions
\* are the first three of the reply's non-empty lines with their enumeration
\* markers stripped, and the remote path fails, leaving the answer to the
\* local generator, only when the reply has no such line.
C15_ArrayFailureFallsBackToLines ==
    (/\ pc = "gen_done" /\ Configured(env) /\ ~BlankOrNonString(user_input)
     /\ answer.kind = "content" /\ ArrayFails(ContentOf(answer)))
    => IF ReplyLines(ContentOf(answer)) = <<>>
       THEN gen.source = "local"
       ELSE /\ gen.source = "remote_model"
            /\ gen.motivations = Take3(ReplyLines(ContentOf(answer)))

\* a message/send call in non-blocking mode with a usable webhook target
NonBlockingWithTarget(r) == CallOf(r, MSend) /\ BlockingFalse(r) /\ HookTarget(r)

\* one step of a call keeps the order generate, webhook attempt, response
OrderedStep ==
    /\ gen' # gen => gen = NoGen /\ response = NoResponse /\ hooks = <<>>
    /\ hooks' # hooks
         => /\ hooks = <<>> /\ Len(hooks') = 1
            /\ gen # NoGen /\ gen.ok
            /\ response = NoResponse
            /\ hookOutcome' \in HookOutcomes
    /\ (response' # response /\ CallOf(req, MSend) /\ response'.kind = "result")
         => /\ gen # NoGen /\ gen' = gen
            /\ hooks' = hooks /\ hookOutcome' = hookOutcome
            /\ (NonBlockingWithTarget(req) /\ gen.ok)
                 => Len(hooks) = 1 /\ hookOutcome \in HookOutcomes
    /\ response # NoResponse => UNCHANGED vars

\* C16: in every message/send call generation runs once and before anything
\* else, the webhook is attempted at most once, after generation and before
\* the response, and has completed (delivered, refused, failed or timed out)
\* when the response is produced; in non-blocking mode with a usable target
\* the response follows exactly one completed attempt, and nothing changes
\* once the response is sent.
C16_GenerateWebhookRespondInOrder == [][OrderedStep]_vars

C16_Witness ==
    /\ pc = "done" /\ NonBlockingWithTarget(req)
    /\ gen.ok
    /\ Len(hooks) = 1
    /\ hookOutcome = Hook("timeout", 0)
    /\ response.kind = "result"
    /\ response.result.outputs = MkOutputs(gen.motivations)

====
